---- MODULE Spec2Model ----
(***************************************************************************)
(* Flight tracker: the Tracker Controller (GlobalFlightTracker in          *)
(* src/src/FlightTracker.tsx) and the Map Reconciler (FlightMap in         *)
(* src/src/FlightMap.tsx), and the FlightMap with the user-location        *)
(* overlay whose source is in src/README.md.                               *)
(*                                                                         *)
(* Representation.  Degrees of the geocoder and of the bounding box are    *)
(* integers in tenths of a degree.  A raw aircraft coordinate is an        *)
(* integer in units of 0.00001 degree; the text toFixed(4) makes of it is  *)
(* a string, and parseFloat of that text is an integer in units of 0.0001  *)
(* degree.  Velocity, altitude and heading of a raw state vector are       *)
(* integers (m/s, m, degrees).  The display-only fields callsign and       *)
(* country of a Flight are read by no operation modelled here and are left *)
(* out.  The flight-state request is a bounding-box query, so every state  *)
(* vector of an answer carries its longitude and latitude.                 *)
(***************************************************************************)
EXTENDS Integers, Sequences, FiniteSets, TLC

VARIABLES
    searchQuery,        \* useState('')            FlightTracker.tsx:18
    flights,            \* useState<Flight[]>([])  FlightTracker.tsx:19
    loading,            \* useState(false)         FlightTracker.tsx:20
    error,              \* useState('')            FlightTracker.tsx:21
    searchedLocation,   \* useState('')            FlightTracker.tsx:22
    currentCoords,      \* useState({lat:0,lon:0}) FlightTracker.tsx:23
    searchRadius,       \* useState(0.5)           FlightTracker.tsx:24
    showMap,            \* useState(false)         FlightTracker.tsx:25
    searches,           \* the fetchFlights calls in flight, each at its await
    mapMounted,         \* a FlightMap instance is rendered (FlightTracker.tsx:296)
    flightMarkers,      \* flightMarkersRef.current of that instance (FlightMap.tsx:29)
    mapLayers,          \* the layers added to the Leaflet map of that instance
    received,           \* history: the provider answer the last settled fetch handled
    removed,            \* history: the layers the last updateMapFlights took off the map
    lastSeen,           \* history: the marker positions of the map view that the
                        \* search now in flight was started from
    userLocationRef,    \* useRef({marker: null, circle: null})  README.md:105
    watchIdRef,         \* useRef<number | null>(null)            README.md:106
    currentHeadingRef,  \* useRef<number>(0)                      README.md:107
    locationEnabled,    \* useState(false)                        README.md:108
    renderId,           \* which render of the FlightMap instance is the latest
                        \* (its closures are the ones the view's handlers hold)
    device,             \* what the browser offers (README.md:218, 240, 242)
    watches,            \* the geolocation watches the device runs
    listeners,          \* the renders whose handleOrientation is registered
    permissions,        \* the renders with a requestPermission() promise pending
    tracking            \* history: which of start and stop ran last

vars == <<searchQuery, flights, loading, error, searchedLocation, currentCoords,
          searchRadius, showMap, searches, mapMounted, flightMarkers, mapLayers,
          received, removed, lastSeen,
          userLocationRef, watchIdRef, currentHeadingRef, locationEnabled,
          renderId, device, watches, listeners, permissions, tracking>>

ctlVars == <<searchQuery, flights, loading, error, searchedLocation, currentCoords,
             searchRadius, showMap>>

\* The state of the user-location overlay of the map view (README.md:105-108)
\* and of the device subscriptions it makes.
locVars == <<userLocationRef, watchIdRef, currentHeadingRef, locationEnabled,
             renderId, device, watches, listeners, permissions, tracking>>

\* null/undefined.  A field that may be null holds Null or the one-element
\* tuple <<v>> of its value; an identifier that may be missing holds "".
Null == <<>>
Idle == <<>>

\* The location overlay of a view that is not there, on a device without
\* geolocation: the values of lines 105-108 of README.md and no subscription.
\* The FlightMap of src/src/FlightMap.tsx has no such overlay and stays here.
LocationOff ==
    /\ userLocationRef = [marker |-> Null, circle |-> Null]
    /\ watchIdRef = Null
    /\ currentHeadingRef = 0
    /\ locationEnabled = FALSE
    /\ renderId = 0
    /\ device = "nogeo"
    /\ watches = {}
    /\ listeners = {}
    /\ permissions = {}
    /\ tracking = "never"

----------------------------------------------------------------------------
(* Bounds of the model. *)

MaxInFlight == 2        \* fetchFlights calls in flight at once
MaxStates == 2          \* state vectors in one provider answer
MaxTrack == 3           \* points of a track

----------------------------------------------------------------------------
(* Program constants. *)

InitialRadius == 5      \* 0.5 degree
RadiusMin == 5
RadiusMax == 15
RadiusStep == 5

Radii == {r \in RadiusMin..RadiusMax : (r - RadiusMin) % RadiusStep = 0}

quickSearches == {"JFK"}

TypedQueries == {"", "JFK"}

RateLimitMessage ==
    "Failed to fetch flight data. The API might be rate-limited. Try again in a few moments."

DefaultMessage == "An error occurred while fetching flight data."

CouldNotFind(searchTerm) ==
    "Could not find location \"" \o searchTerm
        \o "\". Try using an airport code (e.g., JFK, LHR, BOM, CDG) or city name (e.g., New York, London, Mumbai)."

NoFlights(name) ==
    "No flights currently detected near " \o name
        \o ". This could mean there are no aircraft in the area right now, or try increasing the search radius."

----------------------------------------------------------------------------
(* JavaScript helpers. *)

\* Math.round of num/den for den > 0: the nearest integer, a tie towards +infinity.
RoundDiv(num, den) == (2 * num + den) \div (2 * den)

\* Math.round(v * 3.6) of an integer v.
RoundKmh(v) == RoundDiv(36 * v, 10)

Abs(x) == IF x < 0 THEN -x ELSE x

\* x.toFixed(4) of a number given in units of 0.00001: the decimal text with
\* four fraction digits, a tie away from zero.
ToFixed4(x) ==
    LET n == (Abs(x) + 5) \div 10
        frac == n % 10000
        pad == IF frac < 10 THEN "000"
               ELSE IF frac < 100 THEN "00"
               ELSE IF frac < 1000 THEN "0" ELSE ""
    IN  (IF x < 0 THEN "-" ELSE "")
            \o ToString(n \div 10000) \o "." \o pad \o ToString(frac)

\* The numbers a coordinate text of the model can spell, in units of 0.0001.
CoordRange == 0..4

CoordTexts == [n \in CoordRange |-> ToFixed4(10 * n)]

\* parseFloat of a coordinate text made by toFixed(4): the number it spells.
ParseCoord(text) == CHOOSE n \in CoordRange : CoordTexts[n] = text

\* The numbers a heading text of the model can spell.
HeadingRange == {0, 90, 180, 270}

\* parseFloat(text) || 0 of a heading text: the leading number of "<n>°";
\* 'N/A' parses to NaN, which is falsy.
HeadingTexts == [n \in HeadingRange |-> ToString(n) \o "°"]

HeadingOrZero(text) ==
    IF \E n \in HeadingRange : HeadingTexts[n] = text
    THEN CHOOSE n \in HeadingRange : HeadingTexts[n] = text
    ELSE 0

\* JavaScript truthiness of a numeric field that may be null.
Truthy(x) == x # Null /\ x[1] # 0

----------------------------------------------------------------------------
(* Normalisation of a provider answer (fetchFlights, FlightTracker.tsx:113). *)
(* A state vector is a record of the array positions that are read:         *)
(* icao24 = state[0], lon = state[5], lat = state[6], alt = state[7],        *)
(* on_ground = state[8], velocity = state[9], true_track = state[10].        *)

\* state[0] || `flight-${index}`
FlightId(state, index) ==
    IF state.icao24 # "" THEN state.icao24 ELSE "flight-" \o ToString(index)

\* state[7] ? `${Math.round(state[7])} m` : 'N/A'
FormatAltitude(alt) ==
    IF Truthy(alt) THEN ToString(alt[1]) \o " m" ELSE "N/A"

\* state[9] ? `${Math.round(state[9] * 3.6)} km/h` : 'N/A'
FormatVelocity(velocity) ==
    IF Truthy(velocity) THEN ToString(RoundKmh(velocity[1])) \o " km/h" ELSE "N/A"

\* state[10] ? `${Math.round(state[10])}°` : 'N/A'
FormatHeading(track) ==
    IF Truthy(track) THEN ToString(track[1]) \o "°" ELSE "N/A"

\* The object the map callback builds of one state vector; index counts from 0.
FormatFlight(state, index) ==
    [id        |-> FlightId(state, index),
     longitude |-> ToFixed4(state.lon),
     latitude  |-> ToFixed4(state.lat),
     altitude  |-> FormatAltitude(state.alt),
     velocity  |-> FormatVelocity(state.velocity),
     heading   |-> FormatHeading(state.true_track),
     onGround  |-> state.on_ground]

\* Airborne without the test of the flag.
AirborneOrNot(flight) == TRUE

\* .filter((flight) => !flight.onGround)
Airborne(flight) == ~flight.onGround

\* data.states.map(...).filter(...)
FormattedFlights(states) ==
    SelectSeq([i \in 1..Len(states) |-> FormatFlight(states[i], i - 1)], Airborne)

----------------------------------------------------------------------------
(* The Map Reconciler (FlightMap.tsx). *)

\* The flights prop the controller passes (FlightTracker.tsx:298-303).
MapProps(fl) ==
    [i \in 1..Len(fl) |->
        [id        |-> fl[i].id,
         longitude |-> ParseCoord(fl[i].longitude),
         latitude  |-> ParseCoord(fl[i].latitude),
         altitude  |-> fl[i].altitude,
         velocity  |-> fl[i].velocity,
         heading   |-> HeadingOrZero(fl[i].heading)]]

Layer(kind, id) == [kind |-> kind, id |-> id]

\* The map the init effect builds (FlightMap.tsx:129-151): the tile layer and
\* the city marker are on it, and the mapping of the new instance is empty.
NewMap == [markers |-> <<>>, layers |-> {Layer("tile", ""), Layer("city", "")}]

\* RemoveAbsent without lines 64-66: the path overlay of a removed entry stays
\* on the map.
RemoveAbsentKeepOverlay(m, currentFlightIds) ==
    LET gone == {id \in DOMAIN m.markers : id \notin currentFlightIds}
    IN  [markers |-> [id \in DOMAIN m.markers \ gone |-> m.markers[id]],
         layers  |-> m.layers \ {Layer("marker", id) : id \in gone}]

\* Lines 59-70: the entries whose identifier is not in the array are taken off
\* the map and deleted.
RemoveAbsent(m, currentFlightIds) ==
    LET gone == {id \in DOMAIN m.markers : id \notin currentFlightIds}
    IN  [markers |-> [id \in DOMAIN m.markers \ gone |-> m.markers[id]],
         layers  |-> (m.layers \ {Layer("marker", id) : id \in gone})
                        \ {Layer("polyline", id) :
                              id \in {g \in gone : m.markers[g].polyline # Null}}]

\* PushIfMoved without the comparison of lines 84-86.
PushAlways(track, currentPos) == Append(track, currentPos)

\* Lines 83-88: the position is pushed when the track is empty or its last
\* point differs in latitude or in longitude.
PushIfMoved(track, currentPos) ==
    IF Len(track) = 0
       \/ track[Len(track)][1] # currentPos[1]
       \/ track[Len(track)][2] # currentPos[2]
    THEN Append(track, currentPos)
    ELSE track

\* UpdateExisting without line 92: an overlay that exists is not redrawn.
UpdateExistingNoRedraw(m, flight) ==
    LET existingData == m.markers[flight.id]
        currentPos == <<flight.latitude, flight.longitude>>
        track == PushIfMoved(existingData.track, currentPos)
        marker == [latlng |-> currentPos, heading |-> flight.heading]
        create == existingData.polyline = Null /\ Len(track) > 1
        polyline == IF create THEN [latlngs |-> track] ELSE existingData.polyline
    IN  [markers |-> [m.markers EXCEPT ![flight.id] =
                         [marker |-> marker, polyline |-> polyline, track |-> track]],
         layers  |-> IF create THEN m.layers \cup {Layer("polyline", flight.id)}
                     ELSE m.layers]

\* Lines 77-101: an identifier already tracked.
UpdateExisting(m, flight) ==
    LET existingData == m.markers[flight.id]
        currentPos == <<flight.latitude, flight.longitude>>
        track == PushIfMoved(existingData.track, currentPos)
        marker == [latlng |-> currentPos, heading |-> flight.heading]
        create == existingData.polyline = Null /\ Len(track) > 1
        polyline == IF existingData.polyline # Null \/ create
                    THEN [latlngs |-> track]
                    ELSE Null
    IN  [markers |-> [m.markers EXCEPT ![flight.id] =
                         [marker |-> marker, polyline |-> polyline, track |-> track]],
         layers  |-> IF create THEN m.layers \cup {Layer("polyline", flight.id)}
                     ELSE m.layers]

\* CreateMarker with track: [] in place of line 122.
CreateMarkerEmptyTrack(m, flight) ==
    LET currentPos == <<flight.latitude, flight.longitude>>
        data == [marker   |-> [latlng |-> currentPos, heading |-> flight.heading],
                 polyline |-> Null,
                 track    |-> <<>>]
    IN  [markers |-> [id \in DOMAIN m.markers \cup {flight.id} |->
                         IF id = flight.id THEN data ELSE m.markers[id]],
         layers  |-> m.layers \cup {Layer("marker", flight.id)}]

\* Lines 103-123: an identifier seen for the first time.
CreateMarker(m, flight) ==
    LET currentPos == <<flight.latitude, flight.longitude>>
        data == [marker   |-> [latlng |-> currentPos, heading |-> flight.heading],
                 polyline |-> Null,
                 track    |-> <<currentPos>>]
    IN  [markers |-> [id \in DOMAIN m.markers \cup {flight.id} |->
                         IF id = flight.id THEN data ELSE m.markers[id]],
         layers  |-> m.layers \cup {Layer("marker", flight.id)}]

\* UpdateOrCreate without the lookup of line 75: every flight gets a new entry.
CreateAlways(m, flight) == CreateMarker(m, flight)

\* Lines 75-124: the body of the forEach callback.
UpdateOrCreate(m, flight) ==
    IF flight.id \in DOMAIN m.markers
    THEN UpdateExisting(m, flight)
    ELSE CreateMarker(m, flight)

\* Lines 73-125: flights.forEach.  (The result of each call is bound by a
\* one-element set, so that it is evaluated once.)
RECURSIVE ForEachFlight(_, _, _)
ForEachFlight(m, props, i) ==
    IF i > Len(props) THEN m
    ELSE CHOOSE result \in {ForEachFlight(next, props, i + 1) :
                                next \in {UpdateOrCreate(m, props[i])}} : TRUE

\* updateMapFlights (lines 52-126) on an initialised map.
UpdateMapFlights(m, props) ==
    LET currentFlightIds == {props[i].id : i \in 1..Len(props)}
    IN  CHOOSE result \in {ForEachFlight(kept, props, 1) :
                               kept \in {RemoveAbsent(m, currentFlightIds)}} : TRUE

\* The condition under which the controller renders FlightMap
\* (FlightTracker.tsx:296).
MapShown(ld, fl, sm) == ~ld /\ Len(fl) > 0 /\ sm

\* What a render of the controller does to the map view: a FlightMap that is
\* no longer rendered is unmounted and its refs are gone; one rendered for the
\* first time runs the init effect and then the flights effect; one that stays
\* gets a new flights array and runs the flights effect (lines 153-156).
ViewEffects ==
    IF MapShown(loading', flights', showMap')
    THEN \E props \in {MapProps(flights')} :
         \E m \in {UpdateMapFlights(
                     IF mapMounted
                     THEN [markers |-> flightMarkers, layers |-> mapLayers]
                     ELSE NewMap,
                     props)} :
             /\ mapMounted' = TRUE
             /\ flightMarkers' = m.markers
             /\ mapLayers' = m.layers
             /\ removed' = IF mapMounted THEN mapLayers \ m.layers ELSE {}
    ELSE /\ mapMounted' = FALSE
         /\ flightMarkers' = <<>>
         /\ mapLayers' = {}
         /\ removed' = {}

----------------------------------------------------------------------------
(* The two providers. *)

\* What the geocoder holds for a query text: lat and lon (tenths of a degree)
\* and display_name as its comma-delimited segments.
Gazetteer(q) ==
    CASE q = "JFK airport" ->
            [lat |-> 406, lon |-> -738,
             display_name |-> <<"John F. Kennedy International Airport", "Queens">>]
      [] q = "JFK" ->
            [lat |-> 407, lon |-> -740, display_name |-> <<"JFK", "New York">>]
      [] q = "Oslo airport" ->
            [lat |-> 602, lon |-> 111,
             display_name |-> <<"Oslo lufthavn", "Ullensaker">>]
      [] OTHER ->
            [lat |-> 599, lon |-> 107, display_name |-> <<"Oslo", "Norge">>]

\* How one geocoding lookup settles: a result, an empty array, a non-success
\* response, or a rejected fetch / unparsable body.
LookupOutcomes == {"hit", "empty", "notok", "throws"}

ToUpperCase(text) == IF text = "Oslo" THEN "OSLO" ELSE text

StateVector(icao24, lat, lon, on_ground, velocity, true_track) ==
    [icao24 |-> icao24, lon |-> lon, lat |-> lat, alt |-> <<10000>>,
     on_ground |-> on_ground, velocity |-> velocity, true_track |-> true_track]

\* The state vectors the flight-state provider answers with: aircraft a at
\* three raw positions, of which the first two agree to four decimals, a
\* grounded aircraft b, and a vector that lacks its identifier.
StateVectors ==
    {StateVector("a", 10, 10, FALSE, <<100>>, <<90>>),
     StateVector("a", 14, 10, FALSE, <<100>>, <<90>>),
     StateVector("a", 20, 10, FALSE, <<0>>, Null),
     StateVector("b", 10, 20, TRUE, <<0>>, <<0>>),
     StateVector("", 10, 20, FALSE, Null, <<270>>)}

\* One aircraft has one state vector in an answer.
DistinctIds(states) ==
    \A i, j \in 1..Len(states) :
        i # j /\ states[i].icao24 # "" => states[i].icao24 # states[j].icao24

StatesOver(vectors) ==
    {st \in UNION {[1..n -> vectors] : n \in 0..MaxStates} : DistinctIds(st)}

\* How the flight-state request settles: a rejected fetch or unparsable body
\* (with the exception's message), a non-success response, or a document whose
\* states field is absent or an array.
AnswersOver(vectors) ==
    {[kind |-> "throws", message |-> msg] : msg \in {"Failed to fetch", ""}}
    \cup {[kind |-> "notok"], [kind |-> "ok", states |-> Null]}
    \cup {[kind |-> "ok", states |-> <<st>>] : st \in StatesOver(vectors)}

Answers == AnswersOver(StateVectors)

----------------------------------------------------------------------------
(* The Tracker Controller (FlightTracker.tsx). *)

Active(i) == searches[i] # Idle

FreeSlot == CHOOSE i \in 1..MaxInFlight : ~Active(i) /\ \A j \in 1..(i - 1) : Active(j)

\* searchQuery.trim()
Trim(text) == IF text = " " THEN "" ELSE text

\* The first-result object searchAirport returns (lines 38-43 and 56-61).
LocationInfo(place, query) ==
    [lat  |-> place.lat,
     lon  |-> place.lon,
     name |-> place.display_name[1],
     code |-> ToUpperCase(query)]

\* BoundingBox with the sign of line 94 turned.
BoundingBoxNarrow(lat, lon, radius) ==
    [lamin |-> lat - radius, lomin |-> lon - radius,
     lamax |-> lat + radius, lomax |-> lon - radius]

\* Lines 90-96: the bounding box of the flight-state request.
BoundingBox(lat, lon, radius) ==
    [lamin |-> lat - radius, lomin |-> lon - radius,
     lamax |-> lat + radius, lomax |-> lon + radius]

\* fetchFlights up to its first await (lines 73-78 and 30-33): the three
\* state writes, then the airport-suffixed lookup is issued.  searchRadius is
\* the value of the render whose handler made the call.
\* (The field first is history: no other call was in flight at the start.)
FetchFlightsStart(searchTerm) ==
    /\ \E i \in 1..MaxInFlight : ~Active(i)
    /\ loading' = TRUE
    /\ error' = ""
    /\ flights' = <<>>
    /\ searches' = [searches EXCEPT ![FreeSlot] =
            [pc           |-> "airport",
             searchTerm   |-> searchTerm,
             radius       |-> searchRadius,
             locationInfo |-> Null,
             request      |-> [q |-> searchTerm \o " airport"],
             log          |-> <<>>,
             first        |-> \A j \in 1..MaxInFlight : ~Active(j)]]
    /\ received' = Null
    /\ lastSeen' = [id \in DOMAIN flightMarkers |-> flightMarkers[id].marker.latlng]
    /\ UNCHANGED locVars
    /\ UNCHANGED <<searchedLocation, currentCoords, searchRadius, showMap>>

\* onChange of the text input (line 164).
SetSearchQuery(text) ==
    /\ text # searchQuery
    /\ searchQuery' = text
    /\ UNCHANGED <<flights, loading, error, searchedLocation, currentCoords,
                   searchRadius, showMap, searches, received, lastSeen, locVars>>
    /\ ViewEffects

\* onChange of the radius slider (lines 183-191).
SetSearchRadius(r) ==
    /\ r # searchRadius
    /\ searchRadius' = r
    /\ UNCHANGED <<searchQuery, flights, loading, error, searchedLocation,
                   currentCoords, showMap, searches, received, lastSeen, locVars>>
    /\ ViewEffects

\* The list/map button, rendered once a location is shown (lines 212-228).
ToggleShowMap ==
    /\ searchedLocation # ""
    /\ showMap' = ~showMap
    /\ lastSeen' = <<>>
    /\ UNCHANGED locVars
    /\ UNCHANGED <<searchQuery, flights, loading, error, searchedLocation,
                   currentCoords, searchRadius, searches, received>>
    /\ ViewEffects

\* handleSubmit (lines 134-139).
HandleSubmit ==
    /\ Trim(searchQuery) # ""
    /\ FetchFlightsStart(searchQuery)
    /\ UNCHANGED searchQuery
    /\ ViewEffects

\* The Track Flights button, disabled while loading (lines 170-176).
ClickTrackFlights ==
    /\ ~loading
    /\ HandleSubmit

\* handleKeyPress with the Enter key (lines 141-145, 165).
PressEnter ==
    /\ Trim(searchQuery) # ""
    /\ HandleSubmit

\* A quick-search button (lines 197-208).
QuickSearch(code) ==
    /\ searchQuery' = code
    /\ FetchFlightsStart(code)
    /\ ViewEffects

\* LocationNotFound when searchAirport lets the exception through: the
\* catch of fetchFlights reports its message.
LocationThrows(i) ==
    /\ error' = "Failed to fetch"
    /\ loading' = FALSE
    /\ searches' = [searches EXCEPT ![i] = Idle]
    /\ lastSeen' = <<>>
    /\ UNCHANGED locVars
    /\ UNCHANGED <<searchQuery, flights, searchedLocation, currentCoords,
                   searchRadius, showMap, received>>
    /\ ViewEffects

\* LocationNotFound that also forgets the location shown.
LocationNotFoundClearsLocation(i) ==
    /\ error' = CouldNotFind(searches[i].searchTerm)
    /\ loading' = FALSE
    /\ searchedLocation' = ""
    /\ searches' = [searches EXCEPT ![i] = Idle]
    /\ lastSeen' = <<>>
    /\ UNCHANGED locVars
    /\ UNCHANGED <<searchQuery, flights, currentCoords, searchRadius, showMap,
                   received>>
    /\ ViewEffects

\* LocationNotFound without line 82 and without the finally block.
LocationNotFoundStillLoading(i) ==
    /\ error' = CouldNotFind(searches[i].searchTerm)
    /\ searches' = [searches EXCEPT ![i] = Idle]
    /\ lastSeen' = <<>>
    /\ UNCHANGED locVars
    /\ UNCHANGED <<searchQuery, flights, loading, searchedLocation, currentCoords,
                   searchRadius, showMap, received>>
    /\ ViewEffects

\* Lines 80-84 and the finally block: searchAirport returned null.
LocationNotFound(i) ==
    /\ error' = CouldNotFind(searches[i].searchTerm)
    /\ loading' = FALSE
    /\ searches' = [searches EXCEPT ![i] = Idle]
    /\ lastSeen' = <<>>
    /\ UNCHANGED locVars
    /\ UNCHANGED <<searchQuery, flights, searchedLocation, currentCoords,
                   searchRadius, showMap, received>>
    /\ ViewEffects

\* Lines 86-98: searchAirport returned a location; the flight-state request
\* is issued.
LocationFound(i, outcome) ==
    LET s == searches[i]
        locationInfo == LocationInfo(Gazetteer(s.request.q), s.searchTerm)
    IN  /\ searchedLocation' = locationInfo.name
        /\ currentCoords' = [lat |-> locationInfo.lat, lon |-> locationInfo.lon]
        /\ searches' = [searches EXCEPT ![i] =
                [s EXCEPT !.pc = "states",
                          !.locationInfo = locationInfo,
                          !.request = BoundingBox(locationInfo.lat, locationInfo.lon,
                                                  s.radius),
                          !.log = Append(s.log, [q |-> s.request.q, outcome |-> outcome])]]
        /\ UNCHANGED <<searchQuery, flights, loading, error, searchRadius, showMap,
                       received, lastSeen, locVars>>
        /\ ViewEffects

\* AirportResponse that goes on to the bare-query lookup whatever the first
\* lookup gave.
AirportResponseAlwaysSecond(i, outcome) ==
    /\ Active(i)
    /\ searches[i].pc = "airport"
    /\ searches' = [searches EXCEPT ![i] =
          [searches[i] EXCEPT
              !.pc = "city",
              !.request = [q |-> searches[i].searchTerm],
              !.log = Append(searches[i].log,
                             [q |-> searches[i].request.q, outcome |-> outcome])]]
    /\ UNCHANGED <<ctlVars, mapMounted, flightMarkers, mapLayers, received,
                   removed, lastSeen, locVars>>

\* searchAirport after the airport-suffixed lookup settled (lines 35-51, 66-69).
AirportResponse(i, outcome) ==
    /\ Active(i)
    /\ searches[i].pc = "airport"
    /\ CASE outcome = "hit" -> LocationFound(i, outcome)
         [] outcome = "throws" -> LocationNotFound(i)
         [] OTHER ->
              /\ searches' = [searches EXCEPT ![i] =
                    [searches[i] EXCEPT
                        !.pc = "city",
                        !.request = [q |-> searches[i].searchTerm],
                        !.log = Append(searches[i].log,
                                       [q |-> searches[i].request.q,
                                        outcome |-> outcome])]]
              /\ UNCHANGED <<ctlVars, mapMounted, flightMarkers, mapLayers, received,
                             removed, lastSeen, locVars>>

\* CityResponse that goes on to the flight request whenever the response is
\* ok, results or not.
CityResponseNoResultCheck(i, outcome) ==
    /\ Active(i)
    /\ searches[i].pc = "city"
    /\ IF outcome \in {"hit", "empty"}
       THEN LocationFound(i, outcome)
       ELSE LocationNotFound(i)

\* searchAirport after the bare-query lookup settled (lines 53-69).
CityResponse(i, outcome) ==
    /\ Active(i)
    /\ searches[i].pc = "city"
    /\ IF outcome = "hit" THEN LocationFound(i, outcome) ELSE LocationNotFound(i)

\* StatesResponse that tests for an empty result after the on-ground filter.
StatesResponseFilterFirst(i, answer) ==
    /\ Active(i)
    /\ searches[i].pc = "states"
    /\ CASE answer.kind = "throws" ->
              /\ error' = IF answer.message # "" THEN answer.message ELSE DefaultMessage
              /\ UNCHANGED flights
         [] answer.kind = "notok" ->
              /\ error' = RateLimitMessage
              /\ UNCHANGED flights
         [] answer.kind = "ok"
              /\ (answer.states = Null
                  \/ Len(FormattedFlights(answer.states[1])) = 0) ->
              /\ error' = NoFlights(searches[i].locationInfo.name)
              /\ UNCHANGED flights
         [] OTHER ->
              /\ flights' = FormattedFlights(answer.states[1])
              /\ error' = ""
    /\ loading' = FALSE
    /\ searches' = [searches EXCEPT ![i] = Idle]
    /\ received' = answer
    /\ lastSeen' = <<>>
    /\ UNCHANGED locVars
    /\ UNCHANGED <<searchQuery, searchedLocation, currentCoords, searchRadius, showMap>>
    /\ ViewEffects

\* StatesResponse that drops the answer of a search while another search is
\* in flight.
StatesResponseSuperseded(i, answer) ==
    /\ Active(i)
    /\ searches[i].pc = "states"
    /\ IF \E j \in 1..MaxInFlight : j # i /\ Active(j)
       THEN UNCHANGED <<error, flights, loading>>
       ELSE /\ CASE answer.kind = "throws" ->
                      /\ error' = IF answer.message # "" THEN answer.message
                                  ELSE DefaultMessage
                      /\ UNCHANGED flights
                 [] answer.kind = "notok" ->
                      /\ error' = RateLimitMessage
                      /\ UNCHANGED flights
                 [] answer.kind = "ok"
                      /\ (answer.states = Null \/ Len(answer.states[1]) = 0) ->
                      /\ error' = NoFlights(searches[i].locationInfo.name)
                      /\ UNCHANGED flights
                 [] OTHER ->
                      /\ flights' = FormattedFlights(answer.states[1])
                      /\ error' = ""
            /\ loading' = FALSE
    /\ searches' = [searches EXCEPT ![i] = Idle]
    /\ received' = answer
    /\ lastSeen' = <<>>
    /\ UNCHANGED locVars
    /\ UNCHANGED <<searchQuery, searchedLocation, currentCoords, searchRadius, showMap>>
    /\ ViewEffects

\* StatesResponse without the catch block: only the finally block runs when
\* the fetch or the parse throws.
StatesResponseNoCatch(i, answer) ==
    /\ Active(i)
    /\ searches[i].pc = "states"
    /\ CASE answer.kind = "throws" ->
              UNCHANGED <<error, flights>>
         [] answer.kind = "notok" ->
              /\ error' = RateLimitMessage
              /\ UNCHANGED flights
         [] answer.kind = "ok" /\ (answer.states = Null \/ Len(answer.states[1]) = 0) ->
              /\ error' = NoFlights(searches[i].locationInfo.name)
              /\ UNCHANGED flights
         [] OTHER ->
              /\ flights' = FormattedFlights(answer.states[1])
              /\ error' = ""
    /\ loading' = FALSE
    /\ searches' = [searches EXCEPT ![i] = Idle]
    /\ received' = answer
    /\ lastSeen' = <<>>
    /\ UNCHANGED locVars
    /\ UNCHANGED <<searchQuery, searchedLocation, currentCoords, searchRadius, showMap>>
    /\ ViewEffects

\* fetchFlights after the flight-state request settled (lines 100-131).
StatesResponse(i, answer) ==
    /\ Active(i)
    /\ searches[i].pc = "states"
    /\ CASE answer.kind = "throws" ->
              /\ error' = IF answer.message # "" THEN answer.message ELSE DefaultMessage
              /\ UNCHANGED flights
         [] answer.kind = "notok" ->
              /\ error' = RateLimitMessage
              /\ UNCHANGED flights
         [] answer.kind = "ok" /\ (answer.states = Null \/ Len(answer.states[1]) = 0) ->
              /\ error' = NoFlights(searches[i].locationInfo.name)
              /\ UNCHANGED flights
         [] OTHER ->
              /\ flights' = FormattedFlights(answer.states[1])
              /\ error' = ""
    /\ loading' = FALSE
    /\ searches' = [searches EXCEPT ![i] = Idle]
    /\ received' = answer
    /\ lastSeen' = <<>>
    /\ UNCHANGED locVars
    /\ UNCHANGED <<searchQuery, searchedLocation, currentCoords, searchRadius, showMap>>
    /\ ViewEffects

----------------------------------------------------------------------------
Init ==
    /\ searchQuery = ""
    /\ flights = <<>>
    /\ loading = FALSE
    /\ error = ""
    /\ searchedLocation = ""
    /\ currentCoords = [lat |-> 0, lon |-> 0]
    /\ searchRadius = InitialRadius
    /\ showMap = FALSE
    /\ searches = [i \in 1..MaxInFlight |-> Idle]
    /\ mapMounted = FALSE
    /\ flightMarkers = <<>>
    /\ mapLayers = {}
    /\ received = Null
    /\ removed = {}
    /\ lastSeen = <<>>
    /\ LocationOff

Next ==
    \/ \E text \in TypedQueries : SetSearchQuery(text)
    \/ \E r \in Radii : SetSearchRadius(r)
    \/ ToggleShowMap
    \/ ClickTrackFlights
    \/ PressEnter
    \/ \E code \in quickSearches : QuickSearch(code)
    \/ \E i \in 1..MaxInFlight, outcome \in LookupOutcomes : AirportResponse(i, outcome)
    \/ \E i \in 1..MaxInFlight, outcome \in LookupOutcomes : CityResponse(i, outcome)
    \/ \E i \in 1..MaxInFlight, answer \in Answers : StatesResponse(i, answer)

Spec == Init /\ [][Next]_vars

----------------------------------------------------------------------------
(* The map view under any sequence of flight arrays.  A FlightMap that stays *)
(* mounted gets one array after another when searches that were started      *)
(* before the view appeared resolve one by one; SpecMap leaves the           *)
(* bookkeeping of those searches out and lets any answer arrive.             *)

\* Aircraft a and b, each at four raw positions (two of them agree to four
\* decimals) with a heading or none.
MapVectors ==
    {StateVector(id, pos[1], pos[2], FALSE, <<100>>, trk) :
        id \in {"a", "b"},
        pos \in {<<10, 10>>, <<14, 10>>, <<20, 10>>, <<10, 20>>},
        trk \in {Null, <<90>>}}

\* Lines 113-126 of fetchFlights for an answer with state vectors, and the
\* render that follows.
SetFlights(states) ==
    /\ ~loading
    /\ flights' = FormattedFlights(states)
    /\ error' = ""
    /\ loading' = FALSE
    /\ received' = [kind |-> "ok", states |-> <<states>>]
    /\ UNCHANGED <<searchQuery, searchedLocation, currentCoords, searchRadius, showMap,
                   searches, lastSeen, locVars>>
    /\ ViewEffects
    /\ \A id \in DOMAIN flightMarkers' : Len(flightMarkers'[id].track) <= MaxTrack

\* The controller after a search for JFK whose flight-state request was
\* refused, with the map view chosen.
InitMap ==
    /\ searchQuery = "JFK"
    /\ flights = <<>>
    /\ loading = FALSE
    /\ error = RateLimitMessage
    /\ searchedLocation = Gazetteer("JFK airport").display_name[1]
    /\ currentCoords = [lat |-> Gazetteer("JFK airport").lat,
                        lon |-> Gazetteer("JFK airport").lon]
    /\ searchRadius = InitialRadius
    /\ showMap = TRUE
    /\ searches = [i \in 1..MaxInFlight |-> Idle]
    /\ mapMounted = FALSE
    /\ flightMarkers = <<>>
    /\ mapLayers = {}
    /\ received = [kind |-> "notok"]
    /\ removed = {}
    /\ lastSeen = <<>>
    /\ LocationOff

NextMap ==
    \/ \E states \in StatesOver(MapVectors) : SetFlights(states)
    \/ ToggleShowMap

SpecMap == InitMap /\ [][NextMap]_vars

----------------------------------------------------------------------------
(* Claims. *)

FlightIds == {flights[i].id : i \in 1..Len(flights)}

FlightLayers == {l \in mapLayers : l.kind \in {"marker", "polyline"}}

\* C1: after every reconciliation the identifiers of the mapping are those of
\* the latest array, and no marker or path overlay of an identifier that is
\* absent from the array is left on the map.
C1_EvictsAbsent ==
    mapMounted =>
        /\ DOMAIN flightMarkers = FlightIds
        /\ \A l \in FlightLayers : l.id \in FlightIds
        /\ \A l \in removed : l.id \notin FlightIds

\* A reconciliation has just taken a marker and its path overlay off the map.
C1_Witness ==
    /\ mapMounted
    /\ \E l \in removed : l.kind = "polyline"
    /\ \E l \in removed : l.kind = "marker"
    /\ flightMarkers # <<>>

Last(seq) == seq[Len(seq)]

NoRepeat(track) == \A k \in 1..(Len(track) - 1) : track[k] # track[k + 1]

\* The track of id grew by nothing, or by one point that differs from its
\* last point.
GrewByMove(id) ==
    LET old == flightMarkers[id].track
        new == flightMarkers'[id].track
    IN  \/ new = old
        \/ /\ Len(new) = Len(old) + 1
           /\ SubSeq(new, 1, Len(old)) = old
           /\ Last(new) # Last(old)

\* C2: between two consecutive reconciliations of one map view the track of an
\* identifier present in both never gets shorter and grows only by a point
\* that differs from its last point; no track holds two equal consecutive
\* points.
C2_TrackGrowsOnMove ==
    /\ [](\A id \in DOMAIN flightMarkers : NoRepeat(flightMarkers[id].track))
    /\ [][mapMounted /\ mapMounted' =>
            \A id \in DOMAIN flightMarkers \cap DOMAIN flightMarkers' :
                /\ Len(flightMarkers'[id].track) >= Len(flightMarkers[id].track)
                /\ GrewByMove(id)]_vars

\* A track that grew twice, at the bound of the model.
C2_Witness ==
    /\ mapMounted
    /\ \E id \in DOMAIN flightMarkers : Len(flightMarkers[id].track) = MaxTrack

\* C3: a tracked identifier has a path overlay exactly when its track holds at
\* least 2 points, the overlay is then on the map and its points are the track.
C3_OverlayIffTwoPoints ==
    mapMounted =>
        \A id \in DOMAIN flightMarkers :
            LET d == flightMarkers[id]
            IN  /\ (d.polyline # Null) <=> (Len(d.track) >= 2)
                /\ (d.polyline # Null) <=> (Layer("polyline", id) \in mapLayers)
                /\ d.polyline # Null => d.polyline.latlngs = d.track

\* One identifier with a single point and no overlay beside one whose overlay
\* was redrawn for a third point.
C3_Witness ==
    /\ mapMounted
    /\ \E id \in DOMAIN flightMarkers :
          Len(flightMarkers[id].track) = 1 /\ flightMarkers[id].polyline = Null
    /\ \E id \in DOMAIN flightMarkers :
          Len(flightMarkers[id].track) >= 3 /\ flightMarkers[id].polyline # Null

Range(seq) == {seq[k] : k \in 1..Len(seq)}

\* C4: a search started from the shown map view and resolved with an aircraft
\* that was on that view at another position leaves both positions in the
\* track of the aircraft.
C4_TrackHoldsBothPositions ==
    [][mapMounted' =>
          \A id \in DOMAIN lastSeen \cap DOMAIN flightMarkers' :
              lastSeen[id] # flightMarkers'[id].marker.latlng
                  => lastSeen[id] \in Range(flightMarkers'[id].track)]_vars

\* C5: the flight list holds no record whose on-ground flag is true.
C5_NoGroundedFlight ==
    \A k \in 1..Len(flights) : ~flights[k].onGround

OkStates(answer) ==
    IF answer # Null /\ answer.kind = "ok" /\ answer.states # Null
    THEN answer.states[1]
    ELSE <<>>

\* An answer with a grounded and an airborne aircraft was normalised.
C5_Witness ==
    /\ Len(flights) > 0
    /\ \E k \in 1..Len(OkStates(received)) : OkStates(received)[k].on_ground

\* C6: the flight-state request of a search carries the centre that was
\* resolved minus and plus the radius the slider showed when the search was
\* started.
C6_BoundingBox ==
    \A i \in 1..MaxInFlight :
        Active(i) /\ searches[i].pc = "states" =>
            LET s == searches[i]
            IN  /\ s.request.lamin = s.locationInfo.lat - s.radius
                /\ s.request.lamax = s.locationInfo.lat + s.radius
                /\ s.request.lomin = s.locationInfo.lon - s.radius
                /\ s.request.lomax = s.locationInfo.lon + s.radius

\* A request is out with the largest radius while the slider has been moved.
C6_Witness ==
    \E i \in 1..MaxInFlight :
        /\ Active(i)
        /\ searches[i].pc = "states"
        /\ searches[i].radius = RadiusMax
        /\ searchRadius # RadiusMax

ExpectedVelocity(velocity) ==
    IF velocity = Null THEN "N/A"
    ELSE ToString(RoundKmh(velocity[1])) \o " km/h"

NotGrounded(state) == ~state.on_ground

\* C7: the velocity text of every flight made of an answer is round(v x 3.6)
\* followed by " km/h" for every velocity v the vector carries, 0 included,
\* and "N/A" only for a vector without velocity.
C7_VelocityText ==
    Len(OkStates(received)) > 0 =>
        LET air == SelectSeq(OkStates(received), NotGrounded)
        IN  /\ Len(flights) = Len(air)
            /\ \A k \in 1..Len(air) :
                  flights[k].velocity = ExpectedVelocity(air[k].velocity)

NoResult == {"empty", "notok"}

\* C8: the airport-suffixed lookup comes first; the bare-query lookup is
\* issued only after the first one settled without a result; a result of the
\* first lookup is the location returned; no resolution issues a third lookup.
C8_LookupOrder ==
    \A i \in 1..MaxInFlight :
        Active(i) =>
            LET s == searches[i]
                airport == s.searchTerm \o " airport"
            IN  /\ s.pc = "airport" => s.log = <<>> /\ s.request.q = airport
                /\ s.pc = "city" =>
                      /\ Len(s.log) = 1
                      /\ s.log[1].q = airport
                      /\ s.log[1].outcome \in NoResult
                      /\ s.request.q = s.searchTerm
                /\ s.pc = "states" =>
                      /\ Len(s.log) \in {1, 2}
                      /\ s.log[1].q = airport
                      /\ Len(s.log) = 1 =>
                            /\ s.log[1].outcome = "hit"
                            /\ s.locationInfo =
                                  LocationInfo(Gazetteer(airport), s.searchTerm)
                      /\ Len(s.log) = 2 =>
                            /\ s.log[1].outcome \in NoResult
                            /\ s.log[2] = [q |-> s.searchTerm, outcome |-> "hit"]
                            /\ s.locationInfo =
                                  LocationInfo(Gazetteer(s.searchTerm), s.searchTerm)

\* One resolution returned the result of its first lookup while another one
\* needed the second.
C8_Witness ==
    \E i, j \in 1..MaxInFlight :
        /\ Active(i) /\ searches[i].pc = "states" /\ Len(searches[i].log) = 1
        /\ Active(j) /\ searches[j].pc = "states" /\ Len(searches[j].log) = 2

Resolving(i) == Active(i) /\ searches[i].pc \in {"airport", "city"}

\* C9: a search whose resolution fails (both lookups without result, or a
\* lookup that throws) ends there: it shows the could-not-find message of its
\* term, clears loading, and has issued no flight-state request.
C9_NotFoundEnds ==
    [][\A i \in 1..MaxInFlight :
          Resolving(i) /\ searches'[i] # searches[i] =>
              IF searches'[i] = Idle
              THEN /\ error' = CouldNotFind(searches[i].searchTerm)
                   /\ ~loading'
                   /\ flights' = flights
                   /\ received' = received
              ELSE \/ searches[i].pc = "airport" /\ searches'[i].pc = "city"
                   \/ /\ searches'[i].pc = "states"
                      /\ Last(searches'[i].log).outcome = "hit"]_vars

\* A search ended with the could-not-find message.
C9_Witness ==
    /\ error = CouldNotFind("JFK")
    /\ ~loading
    /\ \A i \in 1..MaxInFlight : ~Active(i)

NoSearch == \A i \in 1..MaxInFlight : ~Active(i)

----------------------------------------------------------------------------
(* The searches of one session whose network calls settle: each await of a  *)
(* search in flight is resumed. The radius stays at its initial value and   *)
(* the answers are made of one airborne and one grounded aircraft.          *)

LiveVectors ==
    {StateVector("a", 10, 10, FALSE, <<100>>, <<90>>),
     StateVector("b", 10, 20, TRUE, <<0>>, <<0>>)}

LiveAnswers == AnswersOver(LiveVectors)

Settle(i) ==
    \/ \E outcome \in LookupOutcomes : AirportResponse(i, outcome)
    \/ \E outcome \in LookupOutcomes : CityResponse(i, outcome)
    \/ \E answer \in LiveAnswers : StatesResponse(i, answer)

LiveNext ==
    \/ \E text \in TypedQueries : SetSearchQuery(text)
    \/ ToggleShowMap
    \/ ClickTrackFlights
    \/ PressEnter
    \/ \E code \in quickSearches : QuickSearch(code)
    \/ \E i \in 1..MaxInFlight : Settle(i)

LiveSpec ==
    /\ Init
    /\ [][LiveNext]_vars
    /\ \A i \in 1..MaxInFlight : WF_vars(Settle(i))

\* C10: every search that was started ends, the step that ends it leaves
\* loading false, and loading is false whenever no search is in flight.
C10_LoadingCleared ==
    /\ [](NoSearch => ~loading)
    /\ [][\A i \in 1..MaxInFlight : Active(i) /\ ~Active(i)' => ~loading']_vars
    /\ \A i \in 1..MaxInFlight : Active(i) ~> ~Active(i)

\* A search has ended, by any of its outcomes, and none is in flight.
C10_Witness ==
    /\ NoSearch
    /\ ~loading
    /\ error # ""
    /\ searchedLocation # ""

Fetching(i) == Active(i) /\ searches[i].pc = "states"

\* C11: a search whose flight-state request fails ends with a message and
\* with loading cleared: the rate-limit message for a non-success response,
\* the no-flights message (another text) for an absent or empty states field,
\* and the text of the exception, or the default when it is empty, for a
\* fetch or parse that throws.
C11_FailuresBecomeMessages ==
    [][\A i \in 1..MaxInFlight :
          Fetching(i) /\ searches'[i] = Idle /\ Len(OkStates(received')) = 0 =>
              /\ ~loading'
              /\ flights' = flights
              /\ error' # ""
              /\ received'.kind = "notok" => error' = RateLimitMessage
              /\ received'.kind = "ok" =>
                    /\ error' = NoFlights(searches[i].locationInfo.name)
                    /\ error' # RateLimitMessage
              /\ received'.kind = "throws" =>
                    error' = IF received'.message = ""
                             THEN "An error occurred while fetching flight data."
                             ELSE received'.message]_vars

\* A fetch that threw without a text ended with the default message.
C11_Witness ==
    /\ received # Null
    /\ received.kind = "throws"
    /\ received.message = ""
    /\ error = DefaultMessage
    /\ ~loading

IsLookup(request) == DOMAIN request = {"q"}

IsStatesRequest(request) == DOMAIN request = {"lamin", "lomin", "lamax", "lomax"}

\* The one request a search is waiting for is a lookup while it resolves and
\* the flight-state request after a lookup gave a result.
OneRequestAtATime(s) ==
    /\ Len(s.log) + 1 <= 3
    /\ \A k \in 1..Len(s.log) : DOMAIN s.log[k] = {"q", "outcome"}
    /\ IF s.pc = "states"
       THEN /\ IsStatesRequest(s.request)
            /\ s.locationInfo # Null
            /\ Last(s.log).outcome = "hit"
            /\ \A k \in 1..(Len(s.log) - 1) : s.log[k].outcome # "hit"
       ELSE /\ IsLookup(s.request)
            /\ s.locationInfo = Null
            /\ \A k \in 1..Len(s.log) : s.log[k].outcome # "hit"

\* C12: a search waits for one request at a time: its request is replaced
\* only in the step that settles it, and the flight-state request is out only
\* after a lookup has settled with a result.
C12_SequentialRequests ==
    /\ [](\A i \in 1..MaxInFlight : Active(i) => OneRequestAtATime(searches[i]))
    /\ [][\A i \in 1..MaxInFlight :
             Active(i) /\ Active(i)' /\ searches'[i].request # searches[i].request =>
                 /\ Len(searches'[i].log) = Len(searches[i].log) + 1
                 /\ Last(searches'[i].log).q = searches[i].request.q
                 /\ IsStatesRequest(searches'[i].request)
                        <=> Last(searches'[i].log).outcome = "hit"]_vars

\* A search whose second lookup gave a result waits for its flight request.
C12_Witness ==
    \E i \in 1..MaxInFlight :
        /\ Fetching(i)
        /\ Len(searches[i].log) = 2
        /\ IsStatesRequest(searches[i].request)

\* C13: a search that starts or moves on leaves every other search in flight
\* as it is, and the flight list is that of the flight-state answer that was
\* handled last, whichever search it belongs to.
C13_LastResolvedWins ==
    /\ [](Len(OkStates(received)) > 0
              => flights = FormattedFlights(OkStates(received)))
    /\ [][\A i, j \in 1..MaxInFlight :
             i # j /\ searches'[i] # searches[i] /\ Active(j)
                 => searches'[j] = searches[j]]_vars

\* A search started with no other in flight still waits for its flight-state
\* answer while the list shown is that of a search started after it.
C13_Witness ==
    \E i \in 1..MaxInFlight :
        /\ Fetching(i)
        /\ searches[i].first
        /\ Len(OkStates(received)) > 0
        /\ Len(flights) > 0
        /\ flights = FormattedFlights(OkStates(received))

IsPrefix(short, long) ==
    Len(short) <= Len(long) /\ SubSeq(long, 1, Len(short)) = short

\* C16: on the map view every flight of the array has one entry and one
\* marker layer, at the position and with the heading of the flight; an entry
\* made by a reconciliation starts with the one point of its position and no
\* overlay, and an entry that was there keeps the points of its track.
C16_OneMarkerPerFlight ==
    /\ [](mapMounted =>
            LET props == MapProps(flights)
            IN  /\ DOMAIN flightMarkers = {props[k].id : k \in 1..Len(props)}
                /\ \A k \in 1..Len(props) :
                      /\ Layer("marker", props[k].id) \in mapLayers
                      /\ flightMarkers[props[k].id].marker
                            = [latlng  |-> <<props[k].latitude, props[k].longitude>>,
                               heading |-> props[k].heading])
    /\ [][mapMounted' =>
            \A id \in DOMAIN flightMarkers' :
                IF mapMounted /\ id \in DOMAIN flightMarkers
                THEN IsPrefix(flightMarkers[id].track, flightMarkers'[id].track)
                ELSE /\ flightMarkers'[id].track
                            = <<flightMarkers'[id].marker.latlng>>
                     /\ flightMarkers'[id].polyline = Null]_vars

\* One aircraft with a track of two points beside one just seen.
C16_Witness ==
    /\ mapMounted
    /\ \E id1, id2 \in DOMAIN flightMarkers :
          /\ Len(flightMarkers[id1].track) >= 2
          /\ Len(flightMarkers[id2].track) = 1
          /\ flightMarkers[id2].polyline = Null

AllGrounded(states) ==
    Len(states) > 0 /\ \A k \in 1..Len(states) : states[k].on_ground

\* C17: the search that handles an answer whose states are all grounded ends
\* with no message and an empty flight list; the one that handles an answer
\* with absent or empty states ends with the no-flights message.
C17_EmptyDecidedBeforeFilter ==
    [][\A i \in 1..MaxInFlight :
          Fetching(i) /\ searches'[i] = Idle /\ received'.kind = "ok" =>
              /\ AllGrounded(OkStates(received')) =>
                    error' = "" /\ flights' = <<>>
              /\ Len(OkStates(received')) = 0 =>
                    error' = NoFlights(searches[i].locationInfo.name)]_vars

\* An answer of grounded aircraft only was handled: no message, no flight.
C17_Witness ==
    /\ AllGrounded(OkStates(received))
    /\ error = ""
    /\ flights = <<>>
    /\ ~loading

\* updateMapFlights run once more with the array it was last run with.
ReconciledAgain ==
    UpdateMapFlights([markers |-> flightMarkers, layers |-> mapLayers],
                     MapProps(flights))

\* C18: on the map view, a second reconciliation of the array that was just
\* reconciled changes no identifier, track, overlay or layer, and a render
\* that passes an array of the same content changes none either.
C18_ReconcileIdempotent ==
    /\ [](mapMounted =>
            ReconciledAgain = [markers |-> flightMarkers, layers |-> mapLayers])
    /\ [][mapMounted /\ mapMounted' /\ MapProps(flights') = MapProps(flights) =>
            /\ flightMarkers' = flightMarkers
            /\ mapLayers' = mapLayers
            /\ removed' = {}]_vars

\* An array with a drawn path and a new aircraft was reconciled a second time.
C18_Witness ==
    /\ mapMounted
    /\ \E id \in DOMAIN flightMarkers : flightMarkers[id].polyline # Null
    /\ \E id \in DOMAIN flightMarkers : Len(flightMarkers[id].track) = 1
    /\ ReconciledAgain.markers = flightMarkers

\* C19: loading is true whenever a search is in flight.
C19_LoadingWhileInFlight ==
    (\E i \in 1..MaxInFlight : Active(i)) => loading

\* C20: the flight list that is shown, the location name and the map centre
\* are of one search: the search that writes a non-empty list finds its own
\* location shown, and no other search replaces the location under a list
\* that stays.
C20_OneSearchWroteAll ==
    [][/\ \A i \in 1..MaxInFlight :
             Fetching(i) /\ searches'[i] = Idle
             /\ Len(OkStates(received')) > 0 /\ Len(flights') > 0 =>
                 /\ searchedLocation' = searches[i].locationInfo.name
                 /\ currentCoords' = [lat |-> searches[i].locationInfo.lat,
                                      lon |-> searches[i].locationInfo.lon]
       /\ Len(flights) > 0 /\ flights' = flights =>
             /\ searchedLocation' = searchedLocation
             /\ currentCoords' = currentCoords]_vars

----------------------------------------------------------------------------
(* The map view with the user-location overlay: the FlightMap component of  *)
(* src/README.md (lines 70-428).  Its reconciliation of the flights is that  *)
(* of src/src/FlightMap.tsx; it adds a marker and an accuracy circle for the *)
(* position of the user, a geolocation watch and a deviceorientation         *)
(* listener.  The functions of the component are made anew by every render:  *)
(* a listener is known by the render whose handleOrientation it is.  What a  *)
(* view that was unmounted left running is kept under the render 0 and the   *)
(* watch 0; its callbacks reach no view that is there.                       *)

MaxRenders == 3         \* renders of one FlightMap instance
MaxWatches == 2         \* geolocation watches running at once

\* nogeo: no navigator.geolocation (line 218); geo: no DeviceOrientationEvent
\* (line 240); direct: the listener is added at once (line 252); permission:
\* requestPermission is a function (line 242).
Devices == {"nogeo", "geo", "direct", "permission"}

UserLayers == {Layer("user", ""), Layer("accuracy", "")}

\* The refs and the state of the mounted instance, with the subscriptions.
View ==
    [markers     |-> flightMarkers,
     layers      |-> mapLayers,
     user        |-> userLocationRef,
     watchId     |-> watchIdRef,
     heading     |-> currentHeadingRef,
     enabled     |-> locationEnabled,
     watches     |-> watches,
     listeners   |-> listeners,
     permissions |-> permissions,
     tracking    |-> tracking]

SetView(v) ==
    /\ flightMarkers' = v.markers
    /\ mapLayers' = v.layers
    /\ userLocationRef' = v.user
    /\ watchIdRef' = v.watchId
    /\ currentHeadingRef' = v.heading
    /\ locationEnabled' = v.enabled
    /\ watches' = v.watches
    /\ listeners' = v.listeners
    /\ permissions' = v.permissions
    /\ tracking' = v.tracking

\* updateUserLocation (lines 151-192) on an initialised map.
UpdateUserLocation(v, lat, lon, accuracy) ==
    LET position == <<lat, lon>>
        marker == [latlng |-> position, heading |-> v.heading]
    IN  IF v.user.marker # Null
        THEN [v EXCEPT !.user =
                 [marker |-> marker,
                  circle |-> IF v.user.circle # Null
                             THEN [latlng |-> position, radius |-> accuracy]
                             ELSE Null]]
        ELSE [v EXCEPT !.user = [marker |-> marker,
                                 circle |-> [latlng |-> position,
                                             radius |-> accuracy]],
                       !.layers = v.layers \cup UserLayers]

\* The heading handleOrientation reads off an event (lines 196-206).
EventHeading(event) ==
    IF event.webkitCompassHeading # Null THEN event.webkitCompassHeading[1]
    ELSE IF event.alpha # Null THEN 360 - event.alpha[1]
    ELSE 0

\* handleOrientation (lines 195-214).
HandleOrientation(v, event) ==
    [v EXCEPT !.heading = EventHeading(event),
              !.user = IF v.user.marker # Null
                       THEN [v.user EXCEPT !.marker.heading = EventHeading(event)]
                       ELSE v.user]

NewWatchId(running) ==
    CHOOSE w \in 1..(Cardinality(running) + 1) : w \notin running

\* startLocationTracking of render r (lines 217-255).
StartLocationTracking(v, r) ==
    IF device = "nogeo" THEN [v EXCEPT !.tracking = "started"]
    ELSE [v EXCEPT
             !.watchId = <<NewWatchId(v.watches)>>,
             !.watches = v.watches \cup {NewWatchId(v.watches)},
             !.permissions = IF device = "permission"
                             THEN v.permissions \cup {r} ELSE v.permissions,
             !.listeners = IF device = "direct"
                           THEN v.listeners \cup {r} ELSE v.listeners,
             !.tracking = "started"]

\* stopLocationTracking that takes every layer but the tiles and the city
\* marker off the map.
StopLocationTrackingClearsMap(v, r) ==
    [v EXCEPT
        !.watches = IF v.watchId # Null THEN v.watches \ {v.watchId[1]}
                    ELSE v.watches,
        !.watchId = Null,
        !.listeners = v.listeners \ {r},
        !.user = [marker |-> Null, circle |-> Null],
        !.layers = v.layers \cap NewMap.layers,
        !.enabled = FALSE,
        !.tracking = "stopped"]

\* stopLocationTracking of render r (lines 258-277).
StopLocationTracking(v, r) ==
    [v EXCEPT
        !.watches = IF v.watchId # Null THEN v.watches \ {v.watchId[1]}
                    ELSE v.watches,
        !.watchId = Null,
        !.listeners = v.listeners \ {r},
        !.user = [marker |-> Null, circle |-> Null],
        !.layers = (v.layers
                      \ (IF v.user.marker # Null THEN {Layer("user", "")} ELSE {}))
                      \ (IF v.user.circle # Null THEN {Layer("accuracy", "")} ELSE {}),
        !.enabled = FALSE,
        !.tracking = "stopped"]

\* updateMapFlights of the view (lines 280-354).
ReconcileFlights(v, props) ==
    LET m == CHOOSE result \in {UpdateMapFlights(
                                   [markers |-> v.markers, layers |-> v.layers],
                                   props)} : TRUE
    IN  [v EXCEPT !.markers = m.markers, !.layers = m.layers]

\* The instance a first render makes (lines 101-108) with the map of the init
\* effect (lines 357-378).
NewView ==
    [markers     |-> <<>>,
     layers      |-> NewMap.layers,
     user        |-> [marker |-> Null, circle |-> Null],
     watchId     |-> Null,
     heading     |-> 0,
     enabled     |-> FALSE,
     watches     |-> watches,
     listeners   |-> listeners,
     permissions |-> permissions,
     tracking    |-> tracking]

Orphaned(subscriptions) == IF subscriptions = {} THEN {} ELSE {0}

\* The instance is gone after its cleanup ran; what the cleanup left running
\* belongs to no view.
Unmounted(v) ==
    [markers     |-> <<>>,
     layers      |-> {},
     user        |-> [marker |-> Null, circle |-> Null],
     watchId     |-> Null,
     heading     |-> 0,
     enabled     |-> FALSE,
     watches     |-> Orphaned(v.watches),
     listeners   |-> Orphaned(v.listeners),
     permissions |-> Orphaned(v.permissions),
     tracking    |-> v.tracking]

\* What a render of the controller does to this map view: the first render
\* runs the init effect, which starts the tracking (line 381), and then the
\* flights effect; a later one runs the flights effect with the closures of a
\* new render; a view no longer rendered runs the cleanup of its init effect,
\* which holds the stopLocationTracking of the first render (lines 384-386).
LocViewEffects ==
    /\ UNCHANGED device
    /\ IF MapShown(loading', flights', showMap')
       THEN IF mapMounted
            THEN /\ renderId < MaxRenders
                 /\ renderId' = renderId + 1
                 /\ mapMounted' = TRUE
                 /\ \E v \in {ReconcileFlights(View, MapProps(flights'))} :
                        SetView(v) /\ removed' = mapLayers \ v.layers
            ELSE /\ Cardinality(watches) < MaxWatches
                 /\ renderId' = 1
                 /\ mapMounted' = TRUE
                 /\ removed' = {}
                 /\ \E v \in {ReconcileFlights(StartLocationTracking(NewView, 1),
                                               MapProps(flights'))} : SetView(v)
       ELSE IF mapMounted
            THEN /\ renderId' = 0
                 /\ mapMounted' = FALSE
                 /\ removed' = {}
                 /\ SetView(Unmounted(StopLocationTracking(View, 1)))
            ELSE UNCHANGED <<renderId, mapMounted, removed, flightMarkers, mapLayers,
                             userLocationRef, watchIdRef, currentHeadingRef,
                             locationEnabled, watches, listeners, permissions,
                             tracking>>

LocVectors ==
    {StateVector("a", 10, 10, FALSE, <<100>>, <<90>>),
     StateVector("a", 20, 10, FALSE, <<100>>, <<90>>),
     StateVector("b", 10, 20, FALSE, <<100>>, Null)}

\* The controller renders with the flights of an answer (lines 113-126 of
\* FlightTracker.tsx).
LocSetFlights(states) ==
    /\ ~loading
    /\ flights' = FormattedFlights(states)
    /\ error' = ""
    /\ loading' = FALSE
    /\ received' = [kind |-> "ok", states |-> <<states>>]
    /\ UNCHANGED <<searchQuery, searchedLocation, currentCoords, searchRadius, showMap,
                   searches, lastSeen>>
    /\ LocViewEffects
    /\ \A id \in DOMAIN flightMarkers' : Len(flightMarkers'[id].track) <= MaxTrack

\* The Show Map / Show List button (FlightTracker.tsx:222).
LocToggleShowMap ==
    /\ showMap' = ~showMap
    /\ UNCHANGED <<searchQuery, flights, loading, error, searchedLocation,
                   currentCoords, searchRadius, searches, received, lastSeen>>
    /\ LocViewEffects

\* The location button (lines 399-408): the stop or the start of the latest
\* render; setLocationEnabled(false) after true renders the view again.
ClickLocationButton ==
    /\ mapMounted
    /\ IF locationEnabled
       THEN /\ renderId < MaxRenders
            /\ renderId' = renderId + 1
            /\ SetView(StopLocationTracking(View, renderId))
       ELSE /\ Cardinality(watches) < MaxWatches
            /\ renderId' = renderId
            /\ SetView(StartLocationTracking(View, renderId))
    /\ UNCHANGED <<ctlVars, searches, mapMounted, received, removed, lastSeen, device>>

UserPositions == {<<407, -740>>, <<408, -740>>}
Accuracies == {20}

\* The success callback of a watch of the view (lines 224-228).
PositionCallback(w, position, accuracy) ==
    /\ mapMounted
    /\ w \in watches
    /\ w > 0
    /\ locationEnabled \/ renderId < MaxRenders
    /\ renderId' = IF locationEnabled THEN renderId ELSE renderId + 1
    /\ SetView([UpdateUserLocation(View, position[1], position[2], accuracy)
                   EXCEPT !.enabled = TRUE])
    /\ UNCHANGED <<ctlVars, searches, mapMounted, received, removed, lastSeen, device>>

OrientationEvents ==
    {[webkitCompassHeading |-> <<90>>, alpha |-> Null],
     [webkitCompassHeading |-> Null,   alpha |-> <<90>>],
     [webkitCompassHeading |-> Null,   alpha |-> Null]}

\* A deviceorientation event reaches a listener of the view.
OrientationEvent(r, event) ==
    /\ mapMounted
    /\ r \in listeners
    /\ r > 0
    /\ SetView(HandleOrientation(View, event))
    /\ UNCHANGED <<ctlVars, searches, mapMounted, received, removed, lastSeen, device,
                   renderId>>

\* The promise of requestPermission settles (lines 243-249).
PermissionResponse(r, response) ==
    /\ r \in permissions
    /\ permissions' = permissions \ {r}
    /\ listeners' = IF response = "granted" THEN listeners \cup {r} ELSE listeners
    /\ UNCHANGED <<ctlVars, searches, mapMounted, flightMarkers, mapLayers, received,
                   removed, lastSeen, userLocationRef, watchIdRef, currentHeadingRef,
                   locationEnabled, renderId, device, watches, tracking>>

\* The controller after a search for JFK whose flight-state request was
\* refused, with the map view chosen, on any device.
InitLoc ==
    /\ searchQuery = "JFK"
    /\ flights = <<>>
    /\ loading = FALSE
    /\ error = RateLimitMessage
    /\ searchedLocation = Gazetteer("JFK airport").display_name[1]
    /\ currentCoords = [lat |-> Gazetteer("JFK airport").lat,
                        lon |-> Gazetteer("JFK airport").lon]
    /\ searchRadius = InitialRadius
    /\ showMap = TRUE
    /\ searches = [i \in 1..MaxInFlight |-> Idle]
    /\ mapMounted = FALSE
    /\ flightMarkers = <<>>
    /\ mapLayers = {}
    /\ received = [kind |-> "notok"]
    /\ removed = {}
    /\ lastSeen = <<>>
    /\ userLocationRef = [marker |-> Null, circle |-> Null]
    /\ watchIdRef = Null
    /\ currentHeadingRef = 0
    /\ locationEnabled = FALSE
    /\ renderId = 0
    /\ device \in Devices
    /\ watches = {}
    /\ listeners = {}
    /\ permissions = {}
    /\ tracking = "never"

NextLoc ==
    \/ \E states \in StatesOver(LocVectors) : LocSetFlights(states)
    \/ LocToggleShowMap
    \/ ClickLocationButton
    \/ \E w \in 1..MaxWatches, position \in UserPositions, accuracy \in Accuracies :
          PositionCallback(w, position, accuracy)
    \/ \E r \in 1..MaxRenders, event \in OrientationEvents : OrientationEvent(r, event)
    \/ \E r \in 0..MaxRenders, response \in {"granted", "denied"} :
          PermissionResponse(r, response)

SpecLoc == InitLoc /\ [][NextLoc]_vars

\* C14: after stopLocationTracking ran and until startLocationTracking runs,
\* the user marker and the accuracy circle are off the map, no geolocation
\* watch runs and no deviceorientation listener is registered.
C14_StoppedMeansOff ==
    tracking = "stopped" =>
        /\ mapLayers \cap UserLayers = {}
        /\ watches = {}
        /\ listeners = {}

\* A render of the view that the controller caused: the flights effect runs;
\* the renders that setLocationEnabled causes run no effect.
IsReconciliation ==
    mapMounted /\ mapMounted' /\ renderId' = renderId + 1
        /\ locationEnabled' = locationEnabled

OverlayOf(layers) == layers \cap UserLayers

\* C15: on a view that stays, a step of the location overlay (position,
\* orientation, permission, start, stop) leaves the mapping and the layers of
\* the flights as they are, and a reconciliation of the flights leaves the
\* user marker, the accuracy circle, the watch id, the heading and the device
\* subscriptions as they are.
C15_OverlayAndFlightsApart ==
    [][/\ mapMounted /\ mapMounted' /\ ~IsReconciliation =>
             /\ flightMarkers' = flightMarkers
             /\ mapLayers' \ UserLayers = mapLayers \ UserLayers
       /\ IsReconciliation =>
             /\ userLocationRef' = userLocationRef
             /\ OverlayOf(mapLayers') = OverlayOf(mapLayers)
             /\ watchIdRef' = watchIdRef
             /\ currentHeadingRef' = currentHeadingRef
             /\ watches' = watches
             /\ listeners' = listeners]_vars

\* The user marker is on a map that shows a flight path, after an
\* orientation event.
C15_Witness ==
    /\ mapMounted
    /\ userLocationRef.marker # Null
    /\ userLocationRef.marker.heading # 0
    /\ OverlayOf(mapLayers) = UserLayers
    /\ \E id \in DOMAIN flightMarkers : flightMarkers[id].polyline # Null

\* C21: while a message is shown the flight list is empty.
C21_NoFlightsWithError ==
    error # "" => Len(flights) = 0

\* C22: at most one geolocation watch runs, and watchIdRef holds the id of
\* every watch that runs.
C22_OneWatchKnown ==
    /\ Cardinality(watches) <= 1
    /\ \A w \in watches : watchIdRef = <<w>>

Started(i) == ~Active(i) /\ Active(i)'

\* C23: a search that fails at location resolution writes loading, error and
\* flights only: its start, its fall back to the second lookup and its end
\* leave searchedLocation, currentCoords, showMap and searchRadius as they
\* are, and searchQuery too (the quick-search button sets the query to the
\* term it searches for before it calls fetchFlights).
C23_FailedResolutionFrame ==
    [][\A i \in 1..MaxInFlight :
          /\ Started(i) =>
                /\ UNCHANGED <<searchedLocation, currentCoords, showMap, searchRadius>>
                /\ searchQuery' \in {searchQuery, searches'[i].searchTerm}
          /\ Resolving(i) /\ searches'[i] # searches[i]
                /\ (searches'[i] = Idle \/ searches'[i].pc = "city") =>
                UNCHANGED <<searchedLocation, currentCoords, showMap, searchRadius,
                            searchQuery>>]_vars

\* A search ended at its resolution and the location of an earlier search is
\* still the one shown.
C23_Witness ==
    /\ error = CouldNotFind("JFK")
    /\ searchedLocation # ""
    /\ currentCoords # [lat |-> 0, lon |-> 0]
    /\ flights = <<>>
    /\ NoSearch

====
